---- MODULE Spec2Model ----
(***************************************************************************)
(* Verification model of the arkos4clone provisioning tools:               *)
(*   - dtb_selector_XiFan.go        (menu + copy + .cn marker)    SpecDtb  *)
(*   - "SSH over OTG for ArkOS.sh"  (gadget / network / DHCP / SSH bring-up)*)
(*                                                   SpecOTG, SpecOTGSig   *)
(*   - bin/adc-key/adckeys.sh       (evtest key remapping)        SpecAdc  *)
(* Text is modelled as sequences of one-character strings, so that         *)
(* trimming, case folding and number parsing are computed, not assumed.    *)
(***************************************************************************)
EXTENDS Integers, Sequences, FiniteSets, TLC

VARIABLES
    \* ---- dtb_selector_XiFan.go ----
    dpc,        \* position in main: "select", "got_line", "stat_real", "copy_real",
                \* "logo", "cn", "done"
    selected,   \* index (1-based) of the chosen entry of XiFanOptions, 0 for nil
    lastLine,   \* the line ReadString returned and that is being handled (without
                \* the newline); empty between iterations
    lastEof,    \* TRUE when that ReadString hit end of input before a newline
    outcome,    \* what the last prompt iteration did
    prompts,    \* number of prompts answered so far
    out,        \* messages printed, in order
    fsops,      \* file-system operations that modified the current directory, in order
    cnCreated,  \* TRUE once os.Create(".cn") succeeded
    realEntry,  \* what consoles/<Real> is on disk: [kind, acc]
    logoEntry   \* what consoles/<Logo> is on disk: [kind, acc]

VARIABLES
    \* ---- SSH over OTG for ArkOS.sh ----
    pc,          \* position in the script
    RUN_LOG,     \* the lines appended by add_run_log, in order
    retry,       \* configure_usb_gadget's retry counter
    polls,       \* results of the "ip link show usb0" polls of the wait loop, in order
    started,     \* the bring-up steps main has called, in order
    steps,       \* the bring-up steps that returned, in order: [name, ok]
    gadgetDir,   \* GADGET_DIR exists
    gadgetBound, \* the gadget is bound to a UDC
    dnsmasqUp,   \* a dnsmasq using usb_dhcp.conf is running
    gptokeybUp,  \* the gptokeyb helper is running
    ssh_running, \* start_ssh_service's local flag
    sshIdx,      \* index of the next start command of start_ssh_service's for loop
    sshTried,    \* start commands issued, in order: [cmd, ok]
    sshdDirect,  \* /usr/sbin/sshd -D was launched
    msgbox,      \* the run logs handed to safe_msgbox, in order
    cleanups,    \* number of times cleanup was entered
    cleanupsOk,  \* number of times cleanup ran to its "return 0"
    signals      \* number of SIGINT/SIGTERM delivered to the script

VARIABLES
    \* ---- bin/adc-key/adckeys.sh ----
    apc,         \* position in the script
    model,       \* the words of /sys/firmware/devicetree/base/model
    evline,      \* the words of the line "read -r line" returned last
    pending,     \* the adckeys.py action being run for evline, "none" if none
    actions,     \* the adckeys.py actions that ran to completion, in order
    grabs,       \* number of times evtest --grab was started
    nlines       \* number of lines read from evtest

dtbVars == <<dpc, selected, lastLine, lastEof, outcome, prompts, out, fsops,
             cnCreated, realEntry, logoEntry>>

otgVars == <<pc, RUN_LOG, retry, polls, started, steps, gadgetDir, gadgetBound,
             dnsmasqUp, gptokeybUp, ssh_running, sshIdx, sshTried, sshdDirect,
             msgbox, cleanups, cleanupsOk, signals>>

adcVars == <<apc, model, evline, pending, actions, grabs, nlines>>

vars == <<dtbVars, otgVars, adcVars>>

-----------------------------------------------------------------------------
(* Bounds *)
MaxLen == 3        \* longest free-form line typed at the prompt
MaxPrompts == 3    \* prompts answered in one run
MaxSignals == 1    \* signals delivered to the SSH-over-OTG script in one run
MaxModelWords == 2 \* words in the device-tree model string
MaxWords == 2      \* words (button names, value) in one line of evtest
MaxEvents == 2     \* lines read from evtest in one run
MaxGrabs == 2      \* times evtest is started in one run

-----------------------------------------------------------------------------
(* dtb_selector_XiFan.go *)

XiFanOptions ==
    << [Display |-> "XiFan Mymini", Real |-> "mymini", Logo |-> "logo/480P/"],
       [Display |-> "XiFan R36Max", Real |-> "r36max", Logo |-> "logo/720P/"],
       [Display |-> "XiFan R36Pro", Real |-> "r36pro", Logo |-> "logo/480P/"],
       [Display |-> "XiFan XF35H",  Real |-> "xf35h",  Logo |-> "logo/480P/"],
       [Display |-> "XiFan XF40H",  Real |-> "xf40h",  Logo |-> "logo/720P/"],
       [Display |-> "XiFan XF40V",  Real |-> "dc40v",  Logo |-> "logo/720P/"],
       [Display |-> "XiFan DC40V",  Real |-> "dc40v",  Logo |-> "logo/720P/"],
       [Display |-> "XiFan DC35V",  Real |-> "dc35v",  Logo |-> "logo/480P/"] >>

\* int of the 32-bit build (GOARCH=386): strconv.Atoi reports a range error beyond it
IntMax == 2147483647

DigitChars == <<"0", "1", "2", "3", "4", "5", "6", "7", "8", "9">>

IsDigit(c) == \E d \in 1..10 : DigitChars[d] = c

DigitVal(c) == (CHOOSE d \in 1..10 : DigitChars[d] = c) - 1

IsSpace(c) == c \in {" ", "\t", "\r"}

\* strings.ToLower on the letters that occur in the inputs
ToLowerChar(c) ==
    CASE c = "Q" -> "q" [] c = "U" -> "u" [] c = "I" -> "i" [] c = "T" -> "t"
      [] c = "E" -> "e" [] c = "X" -> "x" [] c = "A" -> "a" [] OTHER -> c

ToLower(s) == [i \in 1..Len(s) |-> ToLowerChar(s[i])]

RECURSIVE TrimLeft(_)
TrimLeft(s) == IF s # <<>> /\ IsSpace(Head(s)) THEN TrimLeft(Tail(s)) ELSE s

RECURSIVE TrimRight(_)
TrimRight(s) ==
    IF s # <<>> /\ IsSpace(s[Len(s)]) THEN TrimRight(SubSeq(s, 1, Len(s) - 1)) ELSE s

TrimSpace(s) == TrimRight(TrimLeft(s))

\* Accumulates decimal digits left to right; "range" as soon as the value
\* leaves the int range, "syntax" on a non-digit.
RECURSIVE ParseDigits(_, _)
ParseDigits(s, acc) ==
    IF s = <<>> THEN [err |-> "", n |-> acc]
    ELSE IF ~IsDigit(Head(s)) THEN [err |-> "syntax", n |-> 0]
    ELSE IF acc > (IntMax - DigitVal(Head(s))) \div 10 THEN [err |-> "range", n |-> 0]
    ELSE ParseDigits(Tail(s), acc * 10 + DigitVal(Head(s)))

\* strconv.Atoi: optional sign, then at least one digit, nothing else
Atoi(s) ==
    LET signed == s # <<>> /\ Head(s) \in {"+", "-"}
        body   == IF signed THEN Tail(s) ELSE s
        p      == ParseDigits(body, 0)
    IN  IF body = <<>> THEN [err |-> "syntax", n |-> 0]
        ELSE IF p.err # "" THEN p
        ELSE [err |-> "", n |-> IF signed /\ Head(s) = "-" THEN 0 - p.n ELSE p.n]

\* prompt: ReadString('\n') fails at end of input (a last line without a
\* newline is lost with it); otherwise the line is trimmed
Prompt(line, eof) ==
    IF eof THEN [err |-> TRUE, resp |-> <<>>]
    ELSE [err |-> FALSE, resp |-> TrimSpace(line)]

QuitWords == { <<"q">>, <<"q", "u", "i", "t">>, <<"e", "x", "i", "t">> }

\* One iteration of readIntChoice's loop: "err", "value" (with n) or "continue"
ReadIntChoiceStep(line, eof) ==
    LET p == Prompt(line, eof) IN
    IF p.err THEN [kind |-> "err", n |-> -1]
    ELSE IF ToLower(p.resp) \in QuitWords THEN [kind |-> "value", n |-> 0]
    ELSE LET a == Atoi(p.resp) IN
         IF a.err # "" THEN [kind |-> "continue", n |-> 0]
         ELSE [kind |-> "value", n |-> a.n]

ChoiceInRangeOffByOne(choice) == choice > 0 /\ choice < Len(XiFanOptions)

ChoiceInRange(choice) == choice > 0 /\ choice <= Len(XiFanOptions)

\* One iteration of selectXiFan's loop on one typed line
SelectStep(line, eof) ==
    LET r == ReadIntChoiceStep(line, eof) IN
    IF r.kind = "err" THEN [kind |-> "error", sel |-> 0, msgs |-> <<>>]
    ELSE IF r.kind = "continue"
         THEN [kind |-> "reprompt", sel |-> 0, msgs |-> <<"enter a number or q">>]
    ELSE IF r.n = 0 THEN [kind |-> "quit", sel |-> 0, msgs |-> <<>>]
    ELSE IF ChoiceInRange(r.n) THEN [kind |-> "selected", sel |-> r.n, msgs |-> <<>>]
    ELSE [kind |-> "reprompt", sel |-> 0, msgs |-> <<"invalid choice">>]

\* The lines a user may type
Alphabet == {"0", "1", "8", "9", "-", "+", " ", "q", "Q", "a"}

Words ==
    { <<"q", "u", "i", "t">>, <<"Q", "U", "I", "T">>, <<"Q", "u", "i", "T">>,
      <<"e", "x", "i", "t">>, <<"E", "X", "I", "T">>, <<"e", "X", "i", "t">>,
      <<"q", "u", "i", "t", "s">>, <<"e", "x", "i">>, <<"q", " ", "q">>,
      <<"9", "9", "9", "9", "9", "9", "9", "9", "9", "9", "9">>,
      <<"2", "1", "4", "7", "4", "8", "3", "6", "4", "7">>,
      <<"2", "1", "4", "7", "4", "8", "3", "6", "4", "8">>,
      <<"0", "0", "0", "0", "7">>, <<"+", "0", "0", "0">>, <<"1", ".", "0">> }

Pads == { <<>>, <<" ">>, <<"\t", " ">>, <<"\r">> }

Lines ==
    UNION { [1..k -> Alphabet] : k \in 0..MaxLen }
      \cup { a \o w \o b : a \in Pads, w \in Words, b \in Pads }

\* What a directory entry is, and whether os.Stat can reach it
EntryKinds == {"absent", "dir", "file"}

Entries == [kind : EntryKinds, acc : BOOLEAN]

NoEntry == [kind |-> "unknown", acc |-> TRUE]

\* os.Stat: "notexist" (ENOENT), "error" (any other failure), else the kind
Stat(e) ==
    IF ~e.acc THEN "error" ELSE IF e.kind = "absent" THEN "notexist" ELSE e.kind

IsNotExist(st) == st = "notexist"

\* copyDirectory up to the walk: "" when the walk may start, else the error
CopyDirectoryCheck(e) ==
    IF Stat(e) \in {"error", "notexist"} THEN "stat failed"
    ELSE IF Stat(e) # "dir" THEN "source is not a directory"
    ELSE ""

DtbStart ==
    /\ dpc = "select"
    /\ selected = 0
    /\ lastLine = <<>>
    /\ lastEof = FALSE
    /\ outcome = "none"
    /\ prompts = 0
    /\ out = <<>>
    /\ fsops = <<>>
    /\ cnCreated = FALSE
    /\ realEntry = NoEntry
    /\ logoEntry = NoEntry

\* The program is not running
DtbIdle ==
    /\ dpc = "off"
    /\ selected = 0
    /\ lastLine = <<>>
    /\ lastEof = FALSE
    /\ outcome = "none"
    /\ prompts = 0
    /\ out = <<>>
    /\ fsops = <<>>
    /\ cnCreated = FALSE
    /\ realEntry = NoEntry
    /\ logoEntry = NoEntry

\* prompt (called from readIntChoice, called from selectXiFan): the message
\* is printed and ReadString blocks until a line or the end of input arrives
PromptRead ==
    /\ dpc = "select"
    /\ prompts < MaxPrompts
    /\ \E line \in Lines, eof \in BOOLEAN :
         /\ lastLine' = line
         /\ lastEof' = eof
    /\ prompts' = prompts + 1
    /\ dpc' = "got_line"
    /\ UNCHANGED <<selected, outcome, out, fsops, cnCreated, realEntry, logoEntry>>
    /\ UNCHANGED <<otgVars, adcVars>>

\* The rest of the loop iteration of readIntChoice / selectXiFan on the line
\* just read, and main's reaction to what selectXiFan returns
HandleLine ==
    /\ dpc = "got_line"
    /\ LET r == SelectStep(lastLine, lastEof) IN
         /\ outcome' = r.kind
         /\ selected' = r.sel
         /\ out' = CASE r.kind = "error" -> out \o <<"Error">>
                     [] r.kind = "quit" -> out \o <<"exited">>
                     [] OTHER -> out \o r.msgs
         /\ dpc' = CASE r.kind \in {"error", "quit"} -> "done"
                     [] r.kind = "selected" -> "stat_real"
                     [] OTHER -> "select"
    /\ lastLine' = <<>>
    /\ lastEof' = FALSE
    /\ UNCHANGED <<prompts, fsops, cnCreated, realEntry, logoEntry>>
    /\ UNCHANGED <<otgVars, adcVars>>

\* main, step 1 (first half): os.Stat(consoles/<Real>)
StatReal ==
    /\ dpc = "stat_real"
    /\ \E e \in Entries :
         /\ realEntry' = e
         /\ IF IsNotExist(Stat(e))
            THEN /\ out' = out \o <<"source not found">>
                 /\ dpc' = "done"
            ELSE /\ out' = out \o <<"copying model">>
                 /\ dpc' = "copy_real"
    /\ UNCHANGED <<selected, lastLine, lastEof, outcome, prompts, fsops, cnCreated,
                   logoEntry>>
    /\ UNCHANGED <<otgVars, adcVars>>

\* main, step 1 (second half): copyDirectory(consoles/<Real>, ".")
CopyReal ==
    /\ dpc = "copy_real"
    /\ IF CopyDirectoryCheck(realEntry) # ""
       THEN /\ out' = out \o <<"copy model failed">>
            /\ dpc' = "done"
            /\ fsops' = fsops
       ELSE \E walkOk \in BOOLEAN :
            /\ fsops' = Append(fsops, [op |-> "copyReal", ok |-> walkOk])
            /\ IF walkOk
               THEN /\ out' = out
                    /\ dpc' = "logo"
               ELSE /\ out' = out \o <<"copy model failed">>
                    /\ dpc' = "done"
    /\ UNCHANGED <<selected, lastLine, lastEof, outcome, prompts, cnCreated,
                   realEntry, logoEntry>>
    /\ UNCHANGED <<otgVars, adcVars>>

\* main, step 2: the logo directory is copied when os.Stat returns no error
CopyLogo ==
    /\ dpc = "logo"
    /\ IF XiFanOptions[selected].Logo = ""
       THEN /\ dpc' = "cn"
            /\ UNCHANGED <<out, fsops, logoEntry>>
       ELSE \E e \in Entries :
            /\ logoEntry' = e
            /\ IF Stat(e) \notin {"error", "notexist"}
               THEN IF CopyDirectoryCheck(e) # ""
                    THEN /\ out' = out \o <<"copying logo", "copy logo failed">>
                         /\ dpc' = "done"
                         /\ fsops' = fsops
                    ELSE \E walkOk \in BOOLEAN :
                         /\ fsops' = Append(fsops, [op |-> "copyLogo", ok |-> walkOk])
                         /\ IF walkOk
                            THEN /\ out' = out \o <<"copying logo">>
                                 /\ dpc' = "cn"
                            ELSE /\ out' = out \o <<"copying logo", "copy logo failed">>
                                 /\ dpc' = "done"
               ELSE /\ out' = out \o <<"logo not found, skipped">>
                    /\ dpc' = "cn"
                    /\ fsops' = fsops
    /\ UNCHANGED <<selected, lastLine, lastEof, outcome, prompts, cnCreated, realEntry>>
    /\ UNCHANGED <<otgVars, adcVars>>

\* main, step 3: createCNFile, then the success line
CreateCN ==
    /\ dpc = "cn"
    /\ \E created \in BOOLEAN :
         IF created
         THEN /\ cnCreated' = TRUE
              /\ fsops' = Append(fsops, [op |-> "createCN", ok |-> TRUE])
              /\ out' = out \o <<"cn created", "success">>
         ELSE /\ cnCreated' = cnCreated
              /\ fsops' = fsops
              /\ out' = out \o <<"create cn failed">>
    /\ dpc' = "done"
    /\ UNCHANGED <<selected, lastLine, lastEof, outcome, prompts, realEntry, logoEntry>>
    /\ UNCHANGED <<otgVars, adcVars>>

-----------------------------------------------------------------------------
(* SSH over OTG for ArkOS.sh *)

\* "while [ $retry -lt 10 ]"
MaxRetries == 10

StepNames ==
    <<"configure_usb_gadget", "configure_network", "start_dhcp_service",
      "start_ssh_service">>

\* The summary lines of main
OkLine(name) ==
    CASE name = "configure_usb_gadget" -> "[OK] USB Gadget configured"
      [] name = "configure_network" -> "[OK] Network configured"
      [] name = "start_dhcp_service" -> "[OK] DHCP service started"
      [] name = "start_ssh_service" -> "[OK] SSH service started"

ErrLine(name) ==
    CASE name = "configure_usb_gadget" -> "[ERROR] USB Gadget configuration failed"
      [] name = "configure_network" -> "[ERROR] Network configuration failed"
      [] name = "start_dhcp_service" -> "[ERROR] DHCP service start failed"
      [] name = "start_ssh_service" -> "[ERROR] SSH service start failed"

\* Where main goes after a step's AND-OR list
AfterStep(name) ==
    CASE name = "configure_usb_gadget" -> "network"
      [] name = "configure_network" -> "dhcp"
      [] name = "start_dhcp_service" -> "ssh_detect"
      [] name = "start_ssh_service" -> "msgbox"

add_run_log(log, msg) == Append(log, msg)

ErrexitInStepsAsPlainCalls == TRUE

\* Whether "set -e" acts on a failing command inside a bring-up step: main
\* calls each step as the first command of an AND-OR list ("step && ... ||
\* ..."), and bash ignores errexit in everything run from there
ErrexitInSteps == FALSE

\* Exit status of "((retry++))": 1 when the value of the expression, the old
\* retry, is 0
IncrStatus(r) == IF r = 0 THEN 1 ELSE 0

IncrForgotten(r) == r

\* "((retry++))"
Incr(r) == r + 1

\* "[ $retry -lt 10 ]"
LoopCond(r) == r < MaxRetries

\* "[WARNING] usb0 not ready (try $((retry+1))/10)"
Warn(r) == "[WARNING] usb0 not ready (try " \o ToString(r + 1) \o "/10)"

CleanupUsbGadgetStatusNoReturn(dir) == IF dir THEN 0 ELSE 1

\* Exit status of cleanup_usb_gadget: "[ -d ... ] && { ... }" is followed by
\* "return 0"
CleanupUsbGadgetStatus(dir) == 0

\* cleanup_usb_gadget's effect on [dir, bound]: the gadget is unbound; the
\* rmdir calls may fail ("|| true") and leave the directory
cleanup_usb_gadget(dir, bound, rmOk) ==
    IF dir THEN [dir |-> ~rmOk, bound |-> FALSE] ELSE [dir |-> dir, bound |-> bound]

\* main: "step && add_run_log OK || add_run_log ERROR", then the next command
Return(name, ok, log) ==
    /\ steps' = Append(steps, [name |-> name, ok |-> ok])
    /\ RUN_LOG' = add_run_log(log, IF ok THEN OkLine(name) ELSE ErrLine(name))
    /\ pc' = AfterStep(name)

\* cleanup, as run by the trap (set -e is in force in it)
Cleanup(rmOk) ==
    LET g == cleanup_usb_gadget(gadgetDir, gadgetBound, rmOk) IN
    /\ cleanups' = cleanups + 1
    /\ dnsmasqUp' = FALSE
    /\ gadgetDir' = g.dir
    /\ gadgetBound' = g.bound
    /\ IF CleanupUsbGadgetStatus(gadgetDir) # 0
       THEN /\ gptokeybUp' = gptokeybUp
            /\ cleanupsOk' = cleanupsOk
       ELSE /\ gptokeybUp' = FALSE
            /\ cleanupsOk' = cleanupsOk + 1

OtgStart ==
    /\ pc = "init_terminal"
    /\ RUN_LOG = <<"log message:">>
    /\ retry = 0
    /\ polls = <<>>
    /\ started = <<>>
    /\ steps = <<>>
    /\ gadgetDir \in BOOLEAN       \* a gadget left by an earlier run, or none
    /\ gadgetBound = gadgetDir
    /\ dnsmasqUp = FALSE
    /\ gptokeybUp = FALSE
    /\ ssh_running = FALSE
    /\ sshIdx = 1
    /\ sshTried = <<>>
    /\ sshdDirect = FALSE
    /\ msgbox = <<>>
    /\ cleanups = 0
    /\ cleanupsOk = 0
    /\ signals = 0

\* The script is not running
OtgIdle ==
    /\ pc = "off"
    /\ RUN_LOG = <<>>
    /\ retry = 0
    /\ polls = <<>>
    /\ started = <<>>
    /\ steps = <<>>
    /\ gadgetDir = FALSE
    /\ gadgetBound = FALSE
    /\ dnsmasqUp = FALSE
    /\ gptokeybUp = FALSE
    /\ ssh_running = FALSE
    /\ sshIdx = 1
    /\ sshTried = <<>>
    /\ sshdDirect = FALSE
    /\ msgbox = <<>>
    /\ cleanups = 0
    /\ cleanupsOk = 0
    /\ signals = 0

\* init_terminal: writes to the console the script runs on, and sleeps
InitTerminal ==
    /\ pc = "init_terminal"
    /\ pc' = "setup_gamepad"
    /\ UNCHANGED <<RUN_LOG, retry, polls, started, steps, gadgetDir, gadgetBound,
                   dnsmasqUp, gptokeybUp, ssh_running, sshIdx, sshTried, sshdDirect,
                   msgbox, cleanups, cleanupsOk, signals>>
    /\ UNCHANGED <<dtbVars, adcVars>>

\* setup_gamepad_support
SetupGamepad ==
    /\ pc = "setup_gamepad"
    /\ \E present \in BOOLEAN, uinputOk \in BOOLEAN :
         IF present
         THEN /\ RUN_LOG' = IF uinputOk THEN RUN_LOG
                            ELSE add_run_log(RUN_LOG,
                                   "[WARNING] Could not change /dev/uinput permissions")
              /\ gptokeybUp' = TRUE
         ELSE /\ RUN_LOG' = add_run_log(RUN_LOG,
                              "[WARNING] Gamepad support disabled. gptokeyb not found.")
              /\ gptokeybUp' = gptokeybUp
    /\ pc' = "usb_gadget"
    /\ UNCHANGED <<retry, polls, started, steps, gadgetDir, gadgetBound, dnsmasqUp,
                   ssh_running, sshIdx, sshTried, sshdDirect, msgbox, cleanups,
                   cleanupsOk, signals>>
    /\ UNCHANGED <<dtbVars, adcVars>>

GadgetEnvs ==
    [libcomposite : BOOLEAN, rndis : BOOLEAN, ecm : BOOLEAN, udcDir : BOOLEAN,
     rmOk : BOOLEAN, mkdirOk : BOOLEAN, cfgOk : BOOLEAN, fnRndis : BOOLEAN,
     fnEcm : BOOLEAN, bindOk : BOOLEAN]

\* configure_usb_gadget up to "sleep 3": ret is "fail" (return 1), "abort"
\* (set -e ended the script) or "wait" (the gadget is bound, go on to the loop)
GadgetSetupResult(e, dir, bound) ==
    LET udcLog == IF e.udcDir THEN "[INFO] Found UDC: ff300000.usb"
                  ELSE "[INFO] Using default UDC: ff300000.usb"
        g == cleanup_usb_gadget(dir, bound, e.rmOk)
        R(ret, logs, d, b) == [ret |-> ret, logs |-> logs, dir |-> d, bound |-> b]
    IN  IF ~e.libcomposite
        THEN R("fail", <<"[ERROR] Could not load libcomposite">>, dir, bound)
        ELSE IF ~e.rndis THEN R("fail", <<"[ERROR] Could not load rndis">>, dir, bound)
        ELSE IF ~e.ecm THEN R("fail", <<"[ERROR] Could not load ecm">>, dir, bound)
        ELSE IF ~g.dir /\ ~e.mkdirOk
        THEN R("fail", <<udcLog, "[ERROR] Could not create gadget dir">>, FALSE, FALSE)
        ELSE IF ~e.cfgOk /\ ErrexitInSteps THEN R("abort", <<udcLog>>, TRUE, FALSE)
        ELSE IF ~e.fnRndis /\ ~e.fnEcm
        THEN R("fail", <<udcLog, "[ERROR] Could not create USB network function">>,
               TRUE, FALSE)
        ELSE IF ~e.bindOk
        THEN R("fail", <<udcLog, "[ERROR] Could not start USB gadget">>, TRUE, FALSE)
        ELSE R("wait", <<udcLog>>, TRUE, TRUE)

\* main calls configure_usb_gadget: everything before the wait loop
GadgetSetup ==
    /\ pc = "usb_gadget"
    /\ started' = Append(started, "configure_usb_gadget")
    /\ \E e \in GadgetEnvs :
         LET r == GadgetSetupResult(e, gadgetDir, gadgetBound) IN
         /\ gadgetDir' = r.dir
         /\ gadgetBound' = r.bound
         /\ CASE r.ret = "fail" ->
                   Return("configure_usb_gadget", FALSE, RUN_LOG \o r.logs)
              [] r.ret = "abort" ->
                   /\ pc' = "exit"
                   /\ RUN_LOG' = RUN_LOG \o r.logs
                   /\ steps' = steps
              [] r.ret = "wait" ->
                   /\ pc' = "usb_wait"
                   /\ RUN_LOG' = RUN_LOG \o r.logs
                   /\ steps' = steps
    /\ retry' = 0
    /\ polls' = <<>>
    /\ UNCHANGED <<dnsmasqUp, gptokeybUp, ssh_running, sshIdx, sshTried, sshdDirect,
                   msgbox, cleanups, cleanupsOk, signals>>
    /\ UNCHANGED <<dtbVars, adcVars>>

\* One iteration of configure_usb_gadget's wait loop
PollUsb0 ==
    /\ pc = "usb_wait"
    /\ LoopCond(retry)
    /\ \E found \in BOOLEAN :
         /\ polls' = Append(polls, found)
         /\ IF found
            THEN /\ Return("configure_usb_gadget", TRUE, RUN_LOG)
                 /\ retry' = retry
            ELSE /\ RUN_LOG' = add_run_log(RUN_LOG, Warn(retry))
                 /\ retry' = Incr(retry)
                 /\ pc' = IF IncrStatus(retry) # 0 /\ ErrexitInSteps THEN "exit" ELSE pc
                 /\ steps' = steps
    /\ UNCHANGED <<started, gadgetDir, gadgetBound, dnsmasqUp, gptokeybUp, ssh_running,
                   sshIdx, sshTried, sshdDirect, msgbox, cleanups, cleanupsOk, signals>>
    /\ UNCHANGED <<dtbVars, adcVars>>

\* The wait loop's condition is false: "[ $retry -eq 10 ] && { ...; return 1; }",
\* "return 0"
EndWait ==
    /\ pc = "usb_wait"
    /\ ~LoopCond(retry)
    /\ IF retry = MaxRetries
       THEN Return("configure_usb_gadget", FALSE,
                   add_run_log(RUN_LOG, "[ERROR] usb0 not found"))
       ELSE Return("configure_usb_gadget", TRUE, RUN_LOG)
    /\ UNCHANGED <<retry, polls, started, gadgetDir, gadgetBound, dnsmasqUp, gptokeybUp,
                   ssh_running, sshIdx, sshTried, sshdDirect, msgbox, cleanups,
                   cleanupsOk, signals>>
    /\ UNCHANGED <<dtbVars, adcVars>>

NetworkEnvs ==
    [hasIp : BOOLEAN, hasIfconfig : BOOLEAN, usb0 : BOOLEAN, addrOk : BOOLEAN,
     upOk : BOOLEAN, ifconfigOk : BOOLEAN]

\* configure_network: [ok, logs]
NetworkResult(e) ==
    IF ~(e.hasIp /\ e.usb0)
    THEN [ok |-> FALSE, logs |-> <<"[ERROR] usb0 does not exist">>]
    ELSE IF e.hasIp
    THEN IF ~e.addrOk
         THEN [ok |-> FALSE, logs |-> <<"[WARNING] Could not assign IP with ip">>]
         ELSE IF ~e.upOk
         THEN [ok |-> FALSE, logs |-> <<"[WARNING] Could not bring up usb0 with ip">>]
         ELSE [ok |-> TRUE, logs |-> <<"[INFO] interface usb0 brought up with ip">>]
    ELSE IF e.hasIfconfig
    THEN IF ~e.ifconfigOk
         THEN [ok |-> FALSE,
               logs |-> <<"[WARNING] Could not configure usb0 with ifconfig">>]
         ELSE [ok |-> TRUE, logs |-> <<"[INFO] usb0 configured with ifconfig">>]
    ELSE [ok |-> FALSE, logs |-> <<"[ERROR] No ip or ifconfig found">>]

\* main calls configure_network
ConfigureNetwork ==
    /\ pc = "network"
    /\ started' = Append(started, "configure_network")
    /\ \E e \in NetworkEnvs :
         LET r == NetworkResult(e) IN
         Return("configure_network", r.ok, RUN_LOG \o r.logs)
    /\ UNCHANGED <<retry, polls, gadgetDir, gadgetBound, dnsmasqUp, gptokeybUp,
                   ssh_running, sshIdx, sshTried, sshdDirect, msgbox, cleanups,
                   cleanupsOk, signals>>
    /\ UNCHANGED <<dtbVars, adcVars>>

\* main calls start_dhcp_service. dnsmasq is put in the background and probed
\* at once with "kill -0 $pid": whether it is (still) running afterwards and
\* what the probe saw are independent
StartDhcp ==
    /\ pc = "dhcp"
    /\ started' = Append(started, "start_dhcp_service")
    /\ \E hasDnsmasq \in BOOLEAN, runs \in BOOLEAN, alive \in BOOLEAN :
         IF ~hasDnsmasq
         THEN /\ Return("start_dhcp_service", FALSE,
                        add_run_log(RUN_LOG, "[ERROR] Dnsmasq not found"))
              /\ dnsmasqUp' = dnsmasqUp
         ELSE /\ dnsmasqUp' = runs
              /\ IF alive
                 THEN Return("start_dhcp_service", TRUE,
                             add_run_log(RUN_LOG, "[INFO] DHCP started (PID: $pid)"))
                 ELSE Return("start_dhcp_service", FALSE,
                             add_run_log(RUN_LOG, "[ERROR] dnsmasq failed to start"))
    /\ UNCHANGED <<retry, polls, gadgetDir, gadgetBound, gptokeybUp, ssh_running,
                   sshIdx, sshTried, sshdDirect, msgbox, cleanups, cleanupsOk, signals>>
    /\ UNCHANGED <<dtbVars, adcVars>>

Services == <<"sshd", "ssh">>

StartCmds ==
    <<"systemctl start ssh", "systemctl start sshd", "service ssh start",
      "service sshd start">>

\* The "already running" lines of the detection loop: for each service, one
\* line per probe (pgrep -x, systemctl is-active) that succeeds
RECURSIVE DetectLogs(_, _)
DetectLogs(probes, i) ==
    IF i > Len(probes) THEN <<>>
    ELSE (IF probes[i]
          THEN <<"[INFO] SSH (" \o Services[(i + 1) \div 2] \o ") already running">>
          ELSE <<>>) \o DetectLogs(probes, i + 1)

\* main calls start_ssh_service: the detection loop
SshDetect ==
    /\ pc = "ssh_detect"
    /\ started' = Append(started, "start_ssh_service")
    /\ \E probes \in [1..4 -> BOOLEAN] :
         /\ ssh_running' = (\E i \in 1..4 : probes[i])
         /\ RUN_LOG' = RUN_LOG \o DetectLogs(probes, 1)
         /\ pc' = IF \E i \in 1..4 : probes[i] THEN "ssh_verify" ELSE "ssh_start"
    /\ sshIdx' = 1
    /\ UNCHANGED <<retry, polls, steps, gadgetDir, gadgetBound, dnsmasqUp, gptokeybUp,
                   sshTried, sshdDirect, msgbox, cleanups, cleanupsOk, signals>>
    /\ UNCHANGED <<dtbVars, adcVars>>

\* start_ssh_service: one iteration of the loop over the start commands
SshTryStart ==
    /\ pc = "ssh_start"
    /\ \E ok \in BOOLEAN :
         /\ sshTried' = Append(sshTried, [cmd |-> StartCmds[sshIdx], ok |-> ok])
         /\ IF ok
            THEN /\ RUN_LOG' = add_run_log(RUN_LOG,
                                 "[INFO] SSH started via " \o StartCmds[sshIdx])
                 /\ pc' = "ssh_direct"
                 /\ sshIdx' = sshIdx
            ELSE /\ RUN_LOG' = RUN_LOG
                 /\ pc' = IF sshIdx = Len(StartCmds) THEN "ssh_direct" ELSE pc
                 /\ sshIdx' = IF sshIdx = Len(StartCmds) THEN sshIdx ELSE sshIdx + 1
    /\ UNCHANGED <<retry, polls, started, steps, gadgetDir, gadgetBound, dnsmasqUp,
                   gptokeybUp, ssh_running, sshdDirect, msgbox, cleanups, cleanupsOk,
                   signals>>
    /\ UNCHANGED <<dtbVars, adcVars>>

\* start_ssh_service: 'if [ "$ssh_running" = false ] && [ -f /usr/sbin/sshd ]'
DirectStartCond(running, sshdFile) == running = FALSE /\ sshdFile

\* start_ssh_service: the direct start of /usr/sbin/sshd
SshDirect ==
    /\ pc = "ssh_direct"
    /\ \E sshdFile \in BOOLEAN, alive \in BOOLEAN :
         IF DirectStartCond(ssh_running, sshdFile)
         THEN /\ sshdDirect' = TRUE
              /\ IF alive
                 THEN /\ RUN_LOG' = add_run_log(RUN_LOG,
                                      "[INFO] SSH started directly (PID: $pid)")
                      /\ ssh_running' = TRUE
                      /\ pc' = "ssh_verify"
                      /\ steps' = steps
                 ELSE /\ Return("start_ssh_service", FALSE,
                                add_run_log(RUN_LOG, "[ERROR] Could not start SSH daemon"))
                      /\ ssh_running' = ssh_running
         ELSE /\ pc' = "ssh_verify"
              /\ UNCHANGED <<RUN_LOG, ssh_running, sshdDirect, steps>>
    /\ UNCHANGED <<retry, polls, started, gadgetDir, gadgetBound, dnsmasqUp, gptokeybUp,
                   sshIdx, sshTried, msgbox, cleanups, cleanupsOk, signals>>
    /\ UNCHANGED <<dtbVars, adcVars>>

\* start_ssh_service: "sleep 2" and the final check
SshVerify ==
    /\ pc = "ssh_verify"
    /\ \E confirmed \in BOOLEAN :
         IF confirmed
         THEN Return("start_ssh_service", TRUE,
                     add_run_log(RUN_LOG, "[INFO] SSH confirmed running"))
         ELSE Return("start_ssh_service", FALSE,
                     add_run_log(RUN_LOG, "[WARNING] SSH may not be running"))
    /\ UNCHANGED <<retry, polls, started, gadgetDir, gadgetBound, dnsmasqUp, gptokeybUp,
                   ssh_running, sshIdx, sshTried, sshdDirect, msgbox, cleanups,
                   cleanupsOk, signals>>
    /\ UNCHANGED <<dtbVars, adcVars>>

\* main: safe_msgbox "$connection_info\n$RUN_LOG"; main returns and the
\* script reaches its end
MsgBox ==
    /\ pc = "msgbox"
    /\ msgbox' = Append(msgbox, RUN_LOG)
    /\ pc' = "exit"
    /\ UNCHANGED <<RUN_LOG, retry, polls, started, steps, gadgetDir, gadgetBound,
                   dnsmasqUp, gptokeybUp, ssh_running, sshIdx, sshTried, sshdDirect,
                   cleanups, cleanupsOk, signals>>
    /\ UNCHANGED <<dtbVars, adcVars>>

\* The EXIT trap
ExitTrap ==
    /\ pc = "exit"
    /\ \E rmOk \in BOOLEAN : Cleanup(rmOk)
    /\ pc' = "terminated"
    /\ UNCHANGED <<RUN_LOG, retry, polls, started, steps, ssh_running, sshIdx,
                   sshTried, sshdDirect, msgbox, signals>>
    /\ UNCHANGED <<dtbVars, adcVars>>

\* Positions at which the trap is installed and the script has not ended
Running ==
    {"init_terminal", "setup_gamepad", "usb_gadget", "usb_wait", "network", "dhcp",
     "ssh_detect", "ssh_start", "ssh_direct", "ssh_verify", "msgbox"}

\* SIGINT or SIGTERM: the trap runs cleanup and the script goes on where it
\* was. When the signal also kills the command in the foreground, that
\* command fails; in init_terminal ("sleep 1", under set -e) the script then
\* exits, everywhere else the failure is one of the outcomes of the step.
Signal ==
    /\ pc \in Running
    /\ signals < MaxSignals
    /\ signals' = signals + 1
    /\ \E rmOk \in BOOLEAN : Cleanup(rmOk)
    /\ \E killsChild \in BOOLEAN :
         pc' = IF CleanupUsbGadgetStatus(gadgetDir) # 0
                  \/ (pc = "init_terminal" /\ killsChild)
               THEN "exit" ELSE pc
    /\ UNCHANGED <<RUN_LOG, retry, polls, started, steps, ssh_running, sshIdx,
                   sshTried, sshdDirect, msgbox>>
    /\ UNCHANGED <<dtbVars, adcVars>>

NextOTG ==
    \/ InitTerminal
    \/ SetupGamepad
    \/ GadgetSetup
    \/ PollUsb0
    \/ EndWait
    \/ ConfigureNetwork
    \/ StartDhcp
    \/ SshDetect
    \/ SshTryStart
    \/ SshDirect
    \/ SshVerify
    \/ MsgBox
    \/ ExitTrap

NextOTGSig ==
    \/ NextOTG
    \/ Signal

-----------------------------------------------------------------------------
(* bin/adc-key/adckeys.sh *)

\* [[ $text == *"pattern"* ]]: the words of pat occur in text, adjacent and in order
Contains(text, pat) ==
    \E i \in 0..(Len(text) - Len(pat)) : SubSeq(text, i + 1, i + Len(pat)) = pat

ActionForBackAnyValue(l) ==
    IF Contains(l, <<"BTN_BACK">>) THEN "startselect"
    ELSE IF Contains(l, <<"BTN_SELECT">>)
    THEN IF Contains(l, <<"value 1">>) THEN "select_press"
         ELSE IF Contains(l, <<"value 0">>) THEN "select_release"
         ELSE "none"
    ELSE IF Contains(l, <<"BTN_START">>)
    THEN IF Contains(l, <<"value 1">>) THEN "start_press"
         ELSE IF Contains(l, <<"value 0">>) THEN "start_release"
         ELSE "none"
    ELSE "none"

\* The if / elif chain of the read loop: the adckeys.py argument, or "none"
ActionFor(l) ==
    IF Contains(l, <<"BTN_BACK">>)
    THEN IF Contains(l, <<"value 1">>) THEN "startselect" ELSE "none"
    ELSE IF Contains(l, <<"BTN_SELECT">>)
    THEN IF Contains(l, <<"value 1">>) THEN "select_press"
         ELSE IF Contains(l, <<"value 0">>) THEN "select_release"
         ELSE "none"
    ELSE IF Contains(l, <<"BTN_START">>)
    THEN IF Contains(l, <<"value 1">>) THEN "start_press"
         ELSE IF Contains(l, <<"value 0">>) THEN "start_release"
         ELSE "none"
    ELSE "none"

ModelWords == {"D007", "Plus", "R36S"}

Models == UNION { [1..k -> ModelWords] : k \in 0..MaxModelWords }

ButtonWords == {"BTN_BACK", "BTN_SELECT", "BTN_START", "BTN_MODE"}

ValueWords == {"value 0", "value 1", "value 2"}

\* The lines evtest may print: button names, and at most one value, which
\* evtest prints last
EvLines ==
    { l \in UNION { [1..k -> ButtonWords \cup ValueWords] : k \in 0..MaxWords } :
        \A i \in 1..(Len(l) - 1) : l[i] \in ButtonWords }

AdcStart ==
    /\ apc = "check_model"
    /\ model \in Models
    /\ evline = <<>>
    /\ pending = "none"
    /\ actions = <<>>
    /\ grabs = 0
    /\ nlines = 0

\* The script is not running
AdcIdle ==
    /\ apc = "off"
    /\ model = <<>>
    /\ evline = <<>>
    /\ pending = "none"
    /\ actions = <<>>
    /\ grabs = 0
    /\ nlines = 0

\* The model test of line 6. When it fails the shell goes on to the stray
\* "fi" of line 32 and stops with a syntax error.
CheckModel ==
    /\ apc = "check_model"
    /\ apc' = IF Contains(model, <<"D007", "Plus">>) THEN "loop" ELSE "ended"
    /\ UNCHANGED <<model, evline, pending, actions, grabs, nlines>>
    /\ UNCHANGED <<dtbVars, otgVars>>

\* "while true": evtest --grab is started and piped into the read loop
StartEvtest ==
    /\ apc = "loop"
    /\ grabs < MaxGrabs
    /\ grabs' = grabs + 1
    /\ apc' = "reading"
    /\ UNCHANGED <<model, evline, pending, actions, nlines>>
    /\ UNCHANGED <<dtbVars, otgVars>>

\* "read -r line" returns a line; the if / elif chain picks the action and
\* adckeys.py is started in the foreground
ReadLine ==
    /\ apc = "reading"
    /\ nlines < MaxEvents
    /\ \E l \in EvLines :
         /\ evline' = l
         /\ pending' = ActionFor(l)
         /\ apc' = IF ActionFor(l) = "none" THEN "reading" ELSE "acting"
    /\ nlines' = nlines + 1
    /\ UNCHANGED <<model, actions, grabs>>
    /\ UNCHANGED <<dtbVars, otgVars>>

\* adckeys.py ends; the loop goes back to "read"
FinishAction ==
    /\ apc = "acting"
    /\ actions' = Append(actions, pending)
    /\ pending' = "none"
    /\ apc' = "reading"
    /\ UNCHANGED <<model, evline, grabs, nlines>>
    /\ UNCHANGED <<dtbVars, otgVars>>

\* evtest exits: "read" fails, the inner loop ends, "while true" goes round
EvtestExit ==
    /\ apc = "reading"
    /\ apc' = "loop"
    /\ UNCHANGED <<model, evline, pending, actions, grabs, nlines>>
    /\ UNCHANGED <<dtbVars, otgVars>>

NextAdc ==
    \/ CheckModel
    \/ StartEvtest
    \/ ReadLine
    \/ FinishAction
    \/ EvtestExit

-----------------------------------------------------------------------------
(* Specifications *)

NextDtb ==
    \/ PromptRead
    \/ HandleLine
    \/ StatReal
    \/ CopyReal
    \/ CopyLogo
    \/ CreateCN

InitDtb == DtbStart /\ OtgIdle /\ AdcIdle

SpecDtb == InitDtb /\ [][NextDtb]_vars

InitOTG == DtbIdle /\ OtgStart /\ AdcIdle

SpecOTG == InitOTG /\ [][NextOTG]_vars

SpecOTGSig == InitOTG /\ [][NextOTGSig]_vars

InitAdc == DtbIdle /\ OtgIdle /\ AdcStart

SpecAdc == InitAdc /\ [][NextAdc]_vars


-----------------------------------------------------------------------------
(* Claims about dtb_selector_XiFan.go *)

\* Decimal notation of a natural number
RECURSIVE C5_Numeral(_)
C5_Numeral(n) ==
    IF n < 10 THEN <<DigitChars[n + 1]>>
    ELSE C5_Numeral(n \div 10) \o <<DigitChars[(n % 10) + 1]>>

C5_Blank == {" ", "\t", "\r"}

\* `core` is the text of `line` between its surrounding blanks
C5_Typed(line, core) ==
    \E a, b \in 0..Len(line) :
        /\ a + b + Len(core) = Len(line)
        /\ \A i \in 1..a : line[i] \in C5_Blank
        /\ \A i \in (Len(line) - b + 1)..Len(line) : line[i] \in C5_Blank
        /\ core = SubSeq(line, a + 1, Len(line) - b)
        /\ core # <<>> => core[1] \notin C5_Blank /\ core[Len(core)] \notin C5_Blank

\* The text of `line` between its surrounding blanks
C5_Core(line) ==
    CHOOSE core \in { SubSeq(line, i, j) : i \in 1..(Len(line) + 1), j \in 0..Len(line) } :
        C5_Typed(line, core)

\* `core` is what a user types to enter the integer n >= 0: an optional
\* sign and leading zeros before its decimal notation
C5_Enters(core, n) ==
    \E z \in 0..Len(core) :
      \E sign \in {<<>>, <<"+">>} \cup (IF n = 0 THEN {<<"-">>} ELSE {}) :
        core = sign \o [i \in 1..z |-> "0"] \o C5_Numeral(n)

C5_Upper == [c \in {"q", "u", "i", "t", "e", "x"} |->
               CASE c = "q" -> "Q" [] c = "u" -> "U" [] c = "i" -> "I"
                 [] c = "t" -> "T" [] c = "e" -> "E" [] c = "x" -> "X"]

\* `core` is q, quit or exit in any mix of upper and lower case
C5_Quits(core) ==
    \E w \in { <<"q">>, <<"q", "u", "i", "t">>, <<"e", "x", "i", "t">> } :
        /\ Len(core) = Len(w)
        /\ \A i \in 1..Len(w) : core[i] \in {w[i], C5_Upper[w[i]]}

C5_Step ==
    dpc = "got_line" =>
      LET core == C5_Core(lastLine)
          entered == { n \in 0..Len(XiFanOptions) : C5_Enters(core, n) }
      IN
      /\ lastEof =>
            /\ outcome' = "error" /\ selected' = 0 /\ dpc' = "done"
            /\ out' = Append(out, "Error")
      /\ \A n \in 1..Len(XiFanOptions) :
            (~lastEof /\ n \in entered) => (outcome' = "selected" /\ selected' = n)
      /\ selected' # 0 =>
            /\ ~lastEof
            /\ selected' \in 1..Len(XiFanOptions)
            /\ selected' \in entered
            /\ outcome' = "selected"
      /\ (~lastEof /\ (0 \in entered \/ C5_Quits(core))) =>
            (outcome' = "quit" /\ selected' = 0 /\ dpc' = "done")
      /\ (~lastEof /\ entered = {} /\ ~C5_Quits(core)) =>
            (outcome' = "reprompt" /\ selected' = 0 /\ dpc' = "select")

C5_Quiet ==
    outcome \in {"quit", "error"} => (dpc = "done" /\ fsops = <<>> /\ ~cnCreated)

\* C5: selectXiFan returns option n-1 exactly when the line typed is an
\* integer n with 1 <= n <= len(XiFanOptions); 0, q, quit and exit (any case)
\* return no option and the program ends without copying or creating .cn;
\* every other line selects nothing and prompts again; end of input ends the
\* loop with an error.
C5_Theorem == [][C5_Step]_vars /\ []C5_Quiet

\* C5 witness: the last option was selected on a second or later prompt
C5_Witness ==
    outcome = "selected" /\ selected = Len(XiFanOptions) /\ prompts > 1 /\ dpc = "stat_real"

C1_CopyDone(op) == \E i \in 1..Len(fsops) : fsops[i] = [op |-> op, ok |-> TRUE]

\* C1 (as stated): the steps run in the order model copy, logo copy, .cn;
\* .cn is created and the success line printed only if a model was selected,
\* consoles/<Real> existed and was copied without error, and the logo
\* directory was copied without error or was absent; if consoles/<Real> does
\* not exist nothing is copied and .cn is not created.
C1_Claim ==
    /\ \A i, j \in 1..Len(fsops) :
          i < j => <<fsops[i].op, fsops[j].op>> \in
                      { <<"copyReal", "copyLogo">>, <<"copyReal", "createCN">>,
                        <<"copyLogo", "createCN">> }
    /\ (cnCreated \/ \E i \in 1..Len(out) : out[i] = "success") =>
          /\ selected # 0
          /\ realEntry.kind = "dir"
          /\ C1_CopyDone("copyReal")
          /\ C1_CopyDone("copyLogo") \/ logoEntry.kind # "dir"
    /\ realEntry.kind = "absent" => (fsops = <<>> /\ ~cnCreated)

-----------------------------------------------------------------------------
(* Claims about SSH over OTG for ArkOS.sh *)

C2_Order ==
    <<"configure_usb_gadget", "configure_network", "start_dhcp_service",
      "start_ssh_service">>

C2_Ok ==
    <<"[OK] USB Gadget configured", "[OK] Network configured",
      "[OK] DHCP service started", "[OK] SSH service started">>

C2_Error ==
    <<"[ERROR] USB Gadget configuration failed", "[ERROR] Network configuration failed",
      "[ERROR] DHCP service start failed", "[ERROR] SSH service start failed">>

C2_Count(log, line) == Cardinality({i \in 1..Len(log) : log[i] = line})

C2_Prefix(s, t) == Len(s) <= Len(t) /\ \A i \in 1..Len(s) : s[i] = t[i]

C4_Warning(k) == "[WARNING] usb0 not ready (try " \o ToString(k) \o "/10)"

C4_Warnings == {C4_Warning(k) : k \in 1..20}

C4_IsWarning(line) == line \in C4_Warnings

C4_Failed == Cardinality({i \in 1..Len(polls) : ~polls[i]})

C4_Logged(line) == \E i \in 1..Len(RUN_LOG) : RUN_LOG[i] = line

\* C4: after binding the gadget, configure_usb_gadget polls for usb0 at most
\* 10 times; it returns success at the first poll that finds usb0, without
\* polling again; it logs "[ERROR] usb0 not found" and returns failure iff all
\* 10 polls fail; the failed polls log "[WARNING] usb0 not ready (try k/10)"
\* once each, k = 1, 2, ... in order.
C4_Theorem ==
    /\ Len(polls) <= 10
    /\ \A i \in 1..(Len(polls) - 1) : ~polls[i]
    /\ pc = "usb_wait" => (retry = Len(polls) /\ C4_Failed = Len(polls))
    /\ SelectSeq(RUN_LOG, C4_IsWarning) = [k \in 1..C4_Failed |-> C4_Warning(k)]
    /\ (polls # <<>> /\ polls[Len(polls)]) => (Len(steps) >= 1 /\ steps[1].ok)
    /\ (polls # <<>> /\ Len(steps) >= 1) =>
          /\ steps[1].ok <=> polls[Len(polls)]
          /\ ~steps[1].ok <=> C4_Failed = 10
          /\ C4_Logged("[ERROR] usb0 not found") <=> C4_Failed = 10
    /\ C4_Logged("[ERROR] usb0 not found") => (Len(steps) >= 1 /\ polls # <<>>)

\* C4 witness: all polls failed and the step returned failure
C4_Witness ==
    /\ Len(steps) >= 1
    /\ ~steps[1].ok
    /\ C4_Failed = 10
    /\ C4_Logged("[ERROR] usb0 not found")

C6_Cmds ==
    <<"systemctl start ssh", "systemctl start sshd", "service ssh start",
      "service sshd start">>

C6_AlreadyRunning ==
    \E i \in 1..Len(RUN_LOG) :
        RUN_LOG[i] \in {"[INFO] SSH (sshd) already running",
                        "[INFO] SSH (ssh) already running"}

\* C6 (as stated): /usr/sbin/sshd is launched directly only when SSH was not
\* already running and all four start commands failed; the commands are tried
\* in order and none after the first that succeeds; when SSH was detected as
\* running no start command is issued.
C6_Claim ==
    /\ sshdDirect =>
          /\ ~C6_AlreadyRunning
          /\ Len(sshTried) = 4
          /\ \A i \in 1..4 : ~sshTried[i].ok
    /\ Len(sshTried) <= 4
    /\ \A i \in 1..Len(sshTried) :
          /\ sshTried[i].cmd = C6_Cmds[i]
          /\ i < Len(sshTried) => ~sshTried[i].ok
    /\ C6_AlreadyRunning => (sshTried = <<>> /\ ~sshdDirect)

-----------------------------------------------------------------------------
(* Claims about bin/adc-key/adckeys.sh *)

C7_Names(l, w) == \E i \in 1..Len(l) : l[i] = w

\* The button a line counts for: BTN_BACK before BTN_SELECT before BTN_START
C7_Button(l) ==
    IF C7_Names(l, "BTN_BACK") THEN "BTN_BACK"
    ELSE IF C7_Names(l, "BTN_SELECT") THEN "BTN_SELECT"
    ELSE IF C7_Names(l, "BTN_START") THEN "BTN_START"
    ELSE "other"

C7_Table ==
    { <<"BTN_BACK", "value 1", "startselect">>,
      <<"BTN_SELECT", "value 1", "select_press">>,
      <<"BTN_SELECT", "value 0", "select_release">>,
      <<"BTN_START", "value 1", "start_press">>,
      <<"BTN_START", "value 0", "start_release">> }

\* The action the claim gives a line, "none" when it gives none
C7_Expected(l) ==
    IF \E t \in C7_Table : t[1] = C7_Button(l) /\ C7_Names(l, t[2])
    THEN (CHOOSE t \in C7_Table : t[1] = C7_Button(l) /\ C7_Names(l, t[2]))[3]
    ELSE "none"

C7_IsD007 == \E i \in 1..(Len(model) - 1) : model[i] = "D007" /\ model[i + 1] = "Plus"

\* A line is read only when no action is running, and starts the action the
\* table gives it; an action that ends is appended to the actions run
C7_Step ==
    /\ nlines' # nlines =>
          /\ nlines' = nlines + 1
          /\ pending = "none"
          /\ pending' = C7_Expected(evline')
          /\ actions' = actions
    /\ actions' # actions =>
          /\ pending # "none"
          /\ actions' = Append(actions, pending)
          /\ pending' = "none"
          /\ nlines' = nlines
    /\ (apc = "reading" /\ apc' \notin {"reading", "acting"}) => apc' = "loop"

C7_State ==
    /\ Len(actions) + (IF pending = "none" THEN 0 ELSE 1) <= nlines
    /\ pending # "none" => (apc = "acting" /\ pending = C7_Expected(evline))
    /\ C7_IsD007 => apc # "ended"
    /\ ~C7_IsD007 => (grabs = 0 /\ nlines = 0 /\ actions = <<>> /\ pending = "none")

C7_ReleaseAfterPress(press, release) ==
    \A i \in 1..Len(actions) :
        actions[i] = release => \E j \in 1..(i - 1) : actions[j] = press

====
